---- MODULE Spec2Model ----
(***************************************************************************)
(* Model of server/app.py: the Flask route GET /sessions/<key>.            *)
(*                                                                         *)
(* Flask's `session` is a signed client-side cookie.  A request carries    *)
(* the cookies the client held when it sent the request; the handler       *)
(* works on the session decoded from those cookies, and the response       *)
(* carries the session object back as a Set-Cookie, which the client       *)
(* stores when the response arrives.  The cookie is signed with            *)
(* app.secret_key, so only the handler writes session records.             *)
(***************************************************************************)
EXTENDS Integers, Sequences, FiniteSets, TLC

\* Bounds of the model.
MaxRequests == 3        \* requests one client sends
MaxOverlap == 2         \* requests one client has outstanding at once (SpecConc)

Clients == {"c1", "c2"}
Overlapping == {"c1"}                   \* the clients that overlap requests in SpecConc
KnownKeys == {"hello", "goodnight", "count"}
Keys == KnownKeys \cup {"foo"}          \* path values of <string:key>
SessionCookie == "session"              \* Flask's SESSION_COOKIE_NAME
OtherCookies == {"theme"}               \* cookies of the host other than the session's
CookieValues == {"dark"}
CookieHolders == {"c1"}                 \* the clients that hold other cookies in SpecCookies
Returning == {"c1"}                     \* the clients that start with a session in SpecStored
\* Values a stored session may hold under each key (SpecStored).
HelloValues == {"", "World", "Hi"}
GoodnightValues == {"", "Moon"}
CountValues == {0, 2}

VARIABLES
    jar,        \* jar[c]: the cookies client c holds (cookie name -> value)
    sent,       \* sent[c]: number of requests c has sent
    sentCount,  \* sentCount[c]: how many of them were GET /sessions/count
    requests,   \* requests sent and not yet handled
    replies,    \* responses produced and not yet received by the client
    last        \* last[c]: the response c received last (<<>> before the first)

vars == <<jar, sent, sentCount, requests, replies, last>>

----------------------------------------------------------------------------
\* The session object: a dict, modelled as a function from its keys.

EmptySession == [k \in {} |-> 0]

\* open_session: the session decoded from the request's cookies, empty when
\* the request carries no session cookie.
OpenSession(cookies) ==
    IF SessionCookie \in DOMAIN cookies THEN cookies[SessionCookie] ELSE EmptySession

\* Python truthiness of session.get(k): None (absent), 0 and "" are falsy.
Truthy(sess, k) ==
    /\ k \in DOMAIN sess
    /\ IF k = "count" THEN sess[k] # 0 ELSE sess[k] # ""

\* session.get(k) or default
GetOr(sess, k, default) == IF Truthy(sess, k) THEN sess[k] ELSE default

\* session[k] = v
SetItem(sess, k, v) ==
    [x \in DOMAIN sess \cup {k} |-> IF x = k THEN v ELSE sess[x]]

\* Line 19, with the key of the read mistyped.
InitHelloWrongKey(sess) == SetItem(sess, "hello", GetOr(sess, "goodnight", "World"))

\* session["hello"] = session.get("hello") or "World"
InitHello(sess) == SetItem(sess, "hello", GetOr(sess, "hello", "World"))

\* Line 20 left out.
InitGoodnightSkipped(sess) == sess

\* session["goodnight"] = session.get("goodnight") or "Moon"
InitGoodnight(sess) == SetItem(sess, "goodnight", GetOr(sess, "goodnight", "Moon"))

\* Line 21 without the read of the stored value.
InitCountReset(sess) == SetItem(sess, "count", 0)

\* session["count"] = session.get("count") or 0
InitCount(sess) == SetItem(sess, "count", GetOr(sess, "count", 0))

\* Lines 19-21.
InitSession(sess) == InitCount(InitGoodnight(InitHello(sess)))

\* Lines 24-25 without the test of the key.
IncrementAlways(sess, key) == [sess EXCEPT !["count"] = @ + 1]

\* Lines 24-25 adding 2.
IncrementByTwo(sess, key) ==
    IF key = "count" THEN [sess EXCEPT !["count"] = @ + 2] ELSE sess

\* if key == "count": session["count"] += 1
Increment(sess, key) ==
    IF key = "count" THEN [sess EXCEPT !["count"] = @ + 1] ELSE sess

\* session[key] raises KeyError when the key is not in the session.
KeyError(sess, key) == key \notin DOMAIN sess

\* The "cookies" list: one {name: value} entry per cookie of the request.
\* The list is a bag of entries (entry -> number of occurrences), its order
\* left out.
CookieList(cookies) ==
    [e \in {[name |-> n, value |-> cookies[n]] : n \in DOMAIN cookies} |-> 1]

\* Lines 34-36 listing the cookies as the response will set them.
BodyResponseCookies(sess, key, cookies) ==
    [session |-> [session_key |-> key,
                  session_value |-> sess[key],
                  session_accessed |-> TRUE],
     cookies |-> CookieList(SetItem(cookies, SessionCookie, sess))]

\* Lines 28-37: the JSON body.  session.accessed is True, the session having
\* been read on line 19.
Body(sess, key, cookies) ==
    [session |-> [session_key |-> key,
                  session_value |-> sess[key],
                  session_accessed |-> TRUE],
     cookies |-> CookieList(cookies)]

\* What Flask answers when the view raises: 500 Internal Server Error.
FaultBody == [error |-> "KeyError"]

\* The handler with the body built before the increment.
ShowSessionStaleBody(key, cookies) ==
    LET s1 == InitSession(OpenSession(cookies))
        s2 == Increment(s1, key)
    IN  IF KeyError(s2, key)
        THEN [session |-> s2, fault |-> TRUE, status |-> 500, body |-> FaultBody]
        ELSE [session |-> s2, fault |-> FALSE, status |-> 200,
              body |-> Body(s1, key, cookies)]

\* show_session(key), lines 12-39.  The result is the session object as the
\* handler leaves it, whether the handler raised, and the response.
ShowSession(key, cookies) ==
    LET s1 == InitSession(OpenSession(cookies))
        s2 == Increment(s1, key)
    IN  IF KeyError(s2, key)
        THEN [session |-> s2, fault |-> TRUE, status |-> 500, body |-> FaultBody]
        ELSE [session |-> s2, fault |-> FALSE, status |-> 200,
              body |-> Body(s2, key, cookies)]

----------------------------------------------------------------------------
\* The requests of client c that are sent and not yet answered to it.
Outstanding(c) ==
    {r \in requests : r.client = c} \cup {r.request : r \in {p \in replies : p.client = c}}

Init ==
    /\ jar = [c \in Clients |-> EmptySession]
    /\ sent = [c \in Clients |-> 0]
    /\ sentCount = [c \in Clients |-> 0]
    /\ requests = {}
    /\ replies = {}
    /\ last = [c \in Clients |-> <<>>]

\* Client c sends GET /sessions/<key> with the cookies it holds, having at
\* most `limit` requests outstanding afterwards.
Send(c, key, limit) ==
    /\ sent[c] < MaxRequests
    /\ Cardinality(Outstanding(c)) < limit
    /\ sent' = [sent EXCEPT ![c] = @ + 1]
    /\ sentCount' = [sentCount EXCEPT ![c] = IF key = "count" THEN @ + 1 ELSE @]
    /\ requests' = requests \cup
          {[client |-> c, n |-> sent[c] + 1, key |-> key, cookies |-> jar[c]]}
    /\ UNCHANGED <<jar, replies, last>>

\* The server handles request r: show_session runs, and the session object
\* is saved into the response's Set-Cookie (also on the 500 response).
Handle(r) ==
    /\ r \in requests
    /\ LET out == ShowSession(r.key, r.cookies)
       IN  replies' = replies \cup
              {[client |-> r.client, request |-> r,
                fault |-> out.fault, status |-> out.status, body |-> out.body,
                setCookie |-> out.session]}
    /\ requests' = requests \ {r}
    /\ UNCHANGED <<jar, sent, sentCount, last>>

\* The response's session stored for every client, as with one session
\* object shared by all clients.
ReceiveShared(p) ==
    /\ p \in replies
    /\ jar' = [c \in Clients |-> SetItem(jar[c], SessionCookie, p.setCookie)]
    /\ last' = [last EXCEPT ![p.client] = <<p>>]
    /\ replies' = replies \ {p}
    /\ UNCHANGED <<sent, sentCount, requests>>

\* The client receives response p and stores its session cookie.
Receive(p) ==
    /\ p \in replies
    /\ jar' = [jar EXCEPT ![p.client] = SetItem(@, SessionCookie, p.setCookie)]
    /\ last' = [last EXCEPT ![p.client] = <<p>>]
    /\ replies' = replies \ {p}
    /\ UNCHANGED <<sent, sentCount, requests>>

\* One request at a time per client.
Next ==
    \/ \E c \in Clients, key \in Keys : Send(c, key, 1)
    \/ \E r \in requests : Handle(r)
    \/ \E p \in replies : Receive(p)

Spec == Init /\ [][Next]_vars

\* A client may send a request before the previous one is answered.
NextConc ==
    \/ \E c \in Overlapping, key \in Keys : Send(c, key, MaxOverlap)
    \/ \E r \in requests : Handle(r)
    \/ \E p \in replies : Receive(p)

SpecConc == Init /\ [][NextConc]_vars

\* Client c comes to hold another cookie of the host (set by another
\* application of the host or by a script); it is sent with c's requests.
StoreCookie(c, name, value) ==
    /\ name # SessionCookie
    /\ IF name \in DOMAIN jar[c] THEN jar[c][name] # value ELSE TRUE
    /\ jar' = [jar EXCEPT ![c] = SetItem(@, name, value)]
    /\ UNCHANGED <<sent, sentCount, requests, replies, last>>

\* One request at a time per client, the clients holding other cookies too.
NextCookies ==
    \/ \E c \in Clients, key \in Keys : Send(c, key, 1)
    \/ \E r \in requests : Handle(r)
    \/ \E p \in replies : Receive(p)
    \/ \E c \in CookieHolders, name \in OtherCookies, value \in CookieValues :
          StoreCookie(c, name, value)

SpecCookies == Init /\ [][NextCookies]_vars

\* The session records a signed cookie may hold: any of the three keys
\* present or absent, falsy values included.
StoredSessions ==
    {[k \in D |-> IF k = "hello" THEN h ELSE IF k = "goodnight" THEN g ELSE n] :
        h \in HelloValues, g \in GoodnightValues, n \in CountValues,
        D \in SUBSET KnownKeys}

\* The defaulting step on any incoming session: the returning clients start
\* with a session cookie of any content, the others with none.
InitStored ==
    /\ jar \in [Clients -> {EmptySession} \cup
                    {SetItem(EmptySession, SessionCookie, s) : s \in StoredSessions}]
    /\ \A c \in Clients \ Returning : jar[c] = EmptySession
    /\ sent = [c \in Clients |-> 0]
    /\ sentCount = [c \in Clients |-> 0]
    /\ requests = {}
    /\ replies = {}
    /\ last = [c \in Clients |-> <<>>]

NextStored ==
    \/ \E c \in Returning, key \in Keys : Send(c, key, 1)
    \/ \E r \in requests : Handle(r)
    \/ \E p \in replies : Receive(p)

SpecStored == InitStored /\ [][NextStored]_vars

----------------------------------------------------------------------------
\* The session record client c holds, and its count (absent counts as 0).
Record(c) == OpenSession(jar[c])
CountOf(sess) == IF "count" \in DOMAIN sess THEN sess["count"] ELSE 0

TypeOK ==
    /\ \A c \in Clients : sent[c] \in 0..MaxRequests
    /\ \A c \in Clients : sentCount[c] \in 0..sent[c]
    /\ \A c \in Clients : Len(last[c]) <= 1

\* Client c has had an answer to every request it sent.
Quiescent(c) == Outstanding(c) = {}

\* Every response produced so far that is still held somewhere.
Responses == replies \cup UNION {{last[c][i] : i \in 1..Len(last[c])} : c \in Clients}

\* The response to the first request of a client has arrived and the client
\* has sent nothing since.
FirstHandled(c) == sent[c] = 1 /\ Len(last[c]) = 1

----------------------------------------------------------------------------
\* C1 as stated: after the first request of a session, with any key, the
\* record holds hello = "World", goodnight = "Moon" and count = 0.
C1_FirstRequestCountZero ==
    \A c \in Clients :
        FirstHandled(c) =>
            Record(c) = [hello |-> "World", goodnight |-> "Moon", count |-> 0]

\* C1 amended: after the first request of a session the record holds
\* hello = "World", goodnight = "Moon", and count = 0 for every key other than
\* "count" (unknown keys included) but count = 1 for the key "count".
C1_FirstRequest ==
    \A c \in Clients :
        FirstHandled(c) =>
            Record(c) = [hello |-> "World", goodnight |-> "Moon",
                         count |-> IF last[c][1].request.key = "count" THEN 1 ELSE 0]

C1_Witness ==
    \E c \in Clients :
        /\ FirstHandled(c)
        /\ last[c][1].request.key = "foo"
        /\ last[c][1].request.cookies = EmptySession
        /\ Record(c) = [hello |-> "World", goodnight |-> "Moon", count |-> 0]

\* C2: from a fresh session, with one request at a time, after N requests
\* GET /sessions/count the stored count is N, and the k-th response reports k.
C2_CountEqualsN ==
    \A c \in Clients :
        sentCount[c] = sent[c] =>
            /\ \A p \in Responses :
                  p.client = c => p.body.session.session_value = p.request.n
            /\ (Quiescent(c) /\ sent[c] >= 1) =>
                  /\ CountOf(Record(c)) = sent[c]
                  /\ last[c][1].request.n = sent[c]

C2_Witness ==
    \E c \in Clients :
        /\ sentCount[c] = 3 /\ sent[c] = 3 /\ Quiescent(c)
        /\ last[c][1].body.session.session_value = 3
        /\ Record(c) = [hello |-> "World", goodnight |-> "Moon", count |-> 3]

\* C3: a request with a key other than "count", unknown keys included, leaves
\* the stored count as it was (absent counting as 0).
C3_OtherKeysKeepCount ==
    [][\A c \in Clients :
          (last'[c] # last[c] /\ last'[c][1].request.key # "count") =>
              CountOf(OpenSession(jar'[c])) = CountOf(OpenSession(jar[c]))]_vars

C3_Witness ==
    \E c \in Clients :
        /\ Quiescent(c) /\ sent[c] = 2 /\ sentCount[c] = 1
        /\ last[c][1].request.key = "foo" /\ last[c][1].fault
        /\ last[c][1].request.n = 2
        /\ CountOf(Record(c)) = 1

\* C4: with one request at a time, the stored count of a session never
\* decreases.
C4_CountMonotone ==
    [][\A c \in Clients :
          CountOf(OpenSession(jar'[c])) >= CountOf(OpenSession(jar[c]))]_vars

C4_Witness ==
    \E c \in Clients :
        /\ Quiescent(c) /\ sent[c] = 3 /\ sentCount[c] = 2
        /\ last[c][1].request.key = "hello"
        /\ CountOf(Record(c)) = 2

\* Handling the request of response p once more, on the session p left.
HandledAgain(p) ==
    ShowSession(p.request.key, SetItem(p.request.cookies, SessionCookie, p.setCookie))

\* C5: once set, hello and goodnight are the same after each request as
\* before it, and handling a request a second time leaves them as the first
\* handling did.
C5_HelloGoodnightPreserved ==
    /\ [][\A c \in Clients : \A k \in {"hello", "goodnight"} :
            k \in DOMAIN OpenSession(jar[c]) =>
                /\ k \in DOMAIN OpenSession(jar'[c])
                /\ OpenSession(jar'[c])[k] = OpenSession(jar[c])[k]]_vars
    /\ [](\A p \in replies : \A k \in {"hello", "goodnight"} :
            /\ k \in DOMAIN p.setCookie
            /\ k \in DOMAIN HandledAgain(p).session
            /\ HandledAgain(p).session[k] = p.setCookie[k])

C5_Witness ==
    \E c \in Clients :
        /\ Quiescent(c) /\ sent[c] = 2
        /\ last[c][1].request.n = 2
        /\ "hello" \in DOMAIN OpenSession(last[c][1].request.cookies)
        /\ Record(c)["hello"] = "World" /\ Record(c)["goodnight"] = "Moon"

\* C6: for a known key the response's session object has session_key = the
\* requested key, session_value = the value the session holds under that key
\* after defaulting and increment, and session_accessed = true; key "hello"
\* on an initialized session gives "hello", "World", true.
C6_ResponseSessionObject ==
    \A p \in Responses :
        p.request.key \in KnownKeys =>
            /\ p.body.session.session_key = p.request.key
            /\ p.body.session.session_value = p.setCookie[p.request.key]
            /\ p.body.session.session_accessed = TRUE
            /\ p.request.key = "hello" =>
                  p.body.session = [session_key |-> "hello",
                                    session_value |-> "World",
                                    session_accessed |-> TRUE]

C6_Witness ==
    \E p \in replies :
        /\ p.request.key = "count"
        /\ CountOf(OpenSession(p.request.cookies)) = 1
        /\ p.body.session = [session_key |-> "count", session_value |-> 2,
                             session_accessed |-> TRUE]

\* C7: every request is answered with status 200, whatever its key.
C7_Always200 == \A p \in Responses : p.status = 200

\* C8: a request with a key outside hello, goodnight, count gets an error
\* response the handler defines, not a fault raised out of the handler.
C8_UnknownKeyDefinedError ==
    \A p \in Responses :
        p.request.key \notin KnownKeys => (~p.fault /\ p.status >= 400)

\* C9: the handler raises the key-lookup fault exactly when the key is not
\* one of hello, goodnight, count.
C9_FaultIffUnknownKey ==
    \A p \in Responses : p.fault <=> p.request.key \notin KnownKeys

C9_Witness ==
    \E p, q \in Responses :
        /\ p.request.key = "foo" /\ p.fault
        /\ q.request.key = "goodnight" /\ ~q.fault
        /\ q.request.cookies = EmptySession

\* C10 as stated: however two requests GET /sessions/count of one session
\* interleave, no increment is lost: the stored count ends at the number of
\* count requests made.
C10_NoLostIncrement ==
    \A c \in Clients :
        (Quiescent(c) /\ sentCount[c] = sent[c]) => CountOf(Record(c)) = sentCount[c]

\* C10 amended: each request is an atomic read-modify-write of the session
\* its own cookie carried: the session it sets has the carried count plus 1
\* for key "count" and the carried count otherwise.  After N >= 1 count
\* requests of one session the stored count is between 1 and N; overlapping
\* requests lose increments.
C10_AtomicOnCarriedSession ==
    /\ \A p \in Responses :
          CountOf(p.setCookie) = CountOf(OpenSession(p.request.cookies))
                                   + (IF p.request.key = "count" THEN 1 ELSE 0)
    /\ \A c \in Clients :
          (Quiescent(c) /\ sentCount[c] = sent[c] /\ sent[c] >= 1) =>
              CountOf(Record(c)) \in 1..sent[c]

C10_Witness ==
    \E c \in Clients :
        /\ Quiescent(c) /\ sent[c] = 2 /\ sentCount[c] = 2
        /\ CountOf(Record(c)) = 1

----------------------------------------------------------------------------
\* The entries of cookie list b that name cookie n.
EntriesNamed(b, n) == {e \in DOMAIN b : e.name = n}

\* C11: for a known key the cookies list of the response has exactly one
\* entry {name: value} for each cookie the request carried and no other
\* entry; the session cookie the response sets is not in it unless the
\* request carried one, and then with the carried value; a request without
\* cookies gets the empty list.
C11_CookiesOfTheRequest ==
    \A p \in Responses :
        p.request.key \in KnownKeys =>
            LET carried == p.request.cookies
                list == p.body.cookies
            IN  /\ \A e \in DOMAIN list : e.name \in DOMAIN carried
                /\ \A n \in DOMAIN carried :
                      /\ EntriesNamed(list, n) = {[name |-> n, value |-> carried[n]]}
                      /\ list[[name |-> n, value |-> carried[n]]] = 1
                /\ DOMAIN carried = {} => list = EmptySession

C11_Witness ==
    \E p, q \in Responses :
        /\ p.request.key \in KnownKeys /\ q.request.key \in KnownKeys
        /\ p.request.cookies = EmptySession /\ p.body.cookies = EmptySession
        /\ DOMAIN q.request.cookies = {SessionCookie, "theme"}
        /\ q.request.key = "count"
        /\ q.setCookie # q.request.cookies[SessionCookie]
        /\ Cardinality(DOMAIN q.body.cookies) = 2
        /\ q.body.cookies[[name |-> "theme", value |-> "dark"]] = 1

----------------------------------------------------------------------------
\* The default of each key, lines 19-21.
DefaultOf(k) == IF k = "hello" THEN "World" ELSE IF k = "goodnight" THEN "Moon" ELSE 0

----------------------------------------------------------------------------
\* C13: session records are independent.  A step changes the record of a
\* session only by delivering the response to a request of that session,
\* computed from the cookies that request carried; and however the requests
\* of two sessions interleave, the record of a session whose requests are all
\* answered is determined by its own requests alone.
C13_SessionsIndependent ==
    /\ [][\A d \in Clients :
            OpenSession(jar'[d]) # OpenSession(jar[d]) =>
                \E p \in replies :
                    /\ p.client = d /\ p.request.client = d
                    /\ p \notin replies'
                    /\ OpenSession(jar'[d]) =
                          ShowSession(p.request.key, p.request.cookies).session
                    /\ \A c \in Clients \ {d} : jar'[c] = jar[c]]_vars
    /\ [](\A d \in Clients :
            Quiescent(d) =>
                Record(d) = IF sent[d] = 0 THEN EmptySession
                            ELSE [hello |-> "World", goodnight |-> "Moon",
                                  count |-> sentCount[d]])

C13_Witness ==
    /\ Quiescent("c1") /\ Quiescent("c2")
    /\ sent["c1"] = 2 /\ CountOf(Record("c1")) = 2
    /\ sent["c2"] = 1 /\ last["c2"][1].request.key = "hello"
    /\ Record("c2") = [hello |-> "World", goodnight |-> "Moon", count |-> 0]

\* C14: every initialized session record has hello = "World",
\* goodnight = "Moon" and a count that is a non-negative integer; each
\* request writes these values, changing count by +1 or not at all.
C14_RecordInvariant ==
    /\ \A c \in Clients :
          Record(c) # EmptySession =>
              /\ DOMAIN Record(c) = KnownKeys
              /\ Record(c)["hello"] = "World"
              /\ Record(c)["goodnight"] = "Moon"
              /\ Record(c)["count"] \in Nat
    /\ \A p \in Responses :
          /\ p.setCookie["hello"] = "World"
          /\ p.setCookie["goodnight"] = "Moon"
          /\ p.setCookie["count"] \in Nat
          /\ p.setCookie["count"] - CountOf(OpenSession(p.request.cookies)) \in {0, 1}

C14_Witness ==
    \E c \in Clients :
        /\ sent[c] = 3 /\ sentCount[c] = 2 /\ Quiescent(c)
        /\ last[c][1].request.key = "foo"
        /\ Record(c) = [hello |-> "World", goodnight |-> "Moon", count |-> 2]
====
